---- MODULE Spec2Model ----
(***************************************************************************)
(* Model of faust/sensors/datadog.py: the Datadog sensor                   *)
(* (DatadogStatsMonitor) and its statsd-style client facade                *)
(* (DatadogStatsClient).                                                   *)
(*                                                                         *)
(* Strings are sequences of one-character strings.  A Python value that    *)
(* may be a string or an integer is a record [t, i, s].  An Optional is a  *)
(* sequence of length at most one: None is <<>>, a present x is <<x>>.     *)
(* A dict is the sequence of its <<key, value>> items in insertion order.  *)
(***************************************************************************)
EXTENDS Integers, Sequences, FiniteSets, TLC

VARIABLES
    libAvailable,   \* whether the datadog package can be imported
    datadog,        \* the module global `datadog`: "unset", "module" or "None"
    modState,       \* "unloaded", "loaded" or "failed": import of this module
    error,          \* the error raised to the host while obtaining a sensor
    sensor,         \* Optional: the constructed sensor's host/port/prefix/rate
    baseInit,       \* whether Monitor.__init__ has run
    client,         \* Optional: the sensor's __dict__['client']
    created,        \* how many DatadogStatsClient objects were constructed
    host,           \* the base Monitor's own bookkeeping
    shortlabel,     \* each stream's current human-readable label
    netUp,          \* whether the transport can currently deliver
    inv,            \* Optional: the last hook invocation, as the host saw it
    net,            \* per (metric, labels): increments minus decrements sent
    msgIn, msgOut,  \* per TP: calls of on_message_in / on_message_out
    evIn, evOut,    \* per (TP, raw label): calls of on_stream_event_in / _out
    ncalls,         \* hook invocations so far
    pc, local, got, \* per thread: position in, and results of, `self.client`
    wire,           \* Optional: the last call a facade operation handed over
    slabel, derived \* a stream label and what _stream_label made of it

vars == <<libAvailable, datadog, modState, error, sensor, baseInit, client,
          created, host, shortlabel, netUp, inv, net, msgIn, msgOut, evIn,
          evOut, ncalls, pc, local, got, wire, slabel, derived>>

sensorVars == <<libAvailable, datadog, modState, error, sensor, baseInit>>
hookVars == <<host, shortlabel, netUp, inv, net, msgIn, msgOut, evIn, evOut,
              ncalls>>
threadVars == <<pc, local, got>>
pureVars == <<wire, slabel, derived>>

None == <<>>
Some(x) == <<x>>

(***************************************************************************)
(* Characters and the string methods the source uses.                      *)
(***************************************************************************)
DigitSeq == <<"0", "1", "2", "3", "4", "5", "6", "7", "8", "9">>
UpperSeq == <<"A", "B", "C", "D", "E", "F", "G", "H", "I", "J", "K", "L", "M",
              "N", "O", "P", "Q", "R", "S", "T", "U", "V", "W", "X", "Y", "Z">>
LowerSeq == <<"a", "b", "c", "d", "e", "f", "g", "h", "i", "j", "k", "l", "m",
              "n", "o", "p", "q", "r", "s", "t", "u", "v", "w", "x", "y", "z">>

Range(f) == {f[i] : i \in DOMAIN f}

Min(S) == CHOOSE m \in S : \A n \in S : m <= n
Max(S) == CHOOSE m \in S : \A n \in S : m >= n

\* The values a label can hold: a string or an integer.
StrVal(s) == [t |-> "str", i |-> 0, s |-> s]
IntVal(n) == [t |-> "int", i |-> n, s |-> <<>>]

RECURSIVE DecimalDigits(_)
DecimalDigits(n) ==
    IF n < 10 THEN <<DigitSeq[n + 1]>>
    ELSE DecimalDigits(n \div 10) \o <<DigitSeq[(n % 10) + 1]>>

\* Python's str(): a string is itself, an integer is its decimal rendering.
str(v) ==
    IF v.t = "str" THEN v.s
    ELSE IF v.i < 0 THEN <<"-">> \o DecimalDigits(0 - v.i)
    ELSE DecimalDigits(v.i)

\* str.lower(), character by character.
lowerChar(c) ==
    IF \E k \in DOMAIN UpperSeq : UpperSeq[k] = c
    THEN LowerSeq[CHOOSE k \in DOMAIN UpperSeq : UpperSeq[k] = c]
    ELSE c

lower(s) == [k \in 1..Len(s) |-> lowerChar(s[k])]

\* str.lstrip(chars): drops every leading character that is in the SET chars.
lstrip(s, chars) ==
    LET keep == {k \in 1..Len(s) : s[k] \notin chars}
    IN  IF keep = {} THEN <<>> ELSE SubSeq(s, Min(keep), Len(s))

\* str.strip(chars): the same at both ends.
strip(s, chars) ==
    LET keep == {k \in 1..Len(s) : s[k] \notin chars}
    IN  IF keep = {} THEN <<>> ELSE SubSeq(s, Min(keep), Max(keep))

\* RE_NORMALIZE = [\<\>:\s]+ : the characters of one run.
RE_NORMALIZE == {"<", ">", ":", " ", "\t"}
RE_NORMALIZE_SUBSTITUTION == "_"

\* pattern.sub(substitution, name) for a pattern of the form [class]+ :
\* every maximal run of class characters becomes one substitution.
RECURSIVE SubRuns(_, _, _, _)
SubRuns(class, substitution, name, k) ==
    IF k > Len(name) THEN <<>>
    ELSE IF name[k] \notin class
         THEN <<name[k]>> \o SubRuns(class, substitution, name, k + 1)
    ELSE IF k > 1 /\ name[k - 1] \in class
         THEN SubRuns(class, substitution, name, k + 1)
    ELSE <<substitution>> \o SubRuns(class, substitution, name, k + 1)

_normalize(name) == SubRuns(RE_NORMALIZE, RE_NORMALIZE_SUBSTITUTION, name, 1)

_time(time) == time * 1000

\* The argument of lstrip in _stream_label: the string 'Stream:'.
StreamPrefix == <<"S", "t", "r", "e", "a", "m", ":">>

_stream_label(label) ==
    lower(strip(_normalize(lstrip(label, Range(StreamPrefix))), {"_"}))

\* sanitize_re = [^0-9a-zA-Z_] : the characters it does NOT match.
sanitize_keep == Range(DigitSeq) \cup Range(UpperSeq) \cup Range(LowerSeq) \cup {"_"}
re_substitution == "_"

\* A pattern that also lets '-' and '.' through.
sanitize_lenient(v) ==
    LET s == str(v)
    IN  [k \in 1..Len(s) |->
           IF s[k] \in sanitize_keep \cup {"-", "."} THEN s[k] ELSE re_substitution]

sanitize(v) ==
    LET s == str(v)
    IN  [k \in 1..Len(s) |-> IF s[k] \in sanitize_keep THEN s[k] ELSE re_substitution]

\* labels: Optional dict.  None and the empty dict both give None.
_encode_labels(labels) ==
    IF labels = None \/ labels[1] = <<>> THEN None
    ELSE Some([k \in 1..Len(labels[1]) |->
                 sanitize(StrVal(labels[1][k][1])) \o <<":">> \o sanitize(labels[1][k][2])])

(***************************************************************************)
(* Bounds and the host's inputs.                                           *)
(***************************************************************************)
MaxCalls == 2       \* hook invocations in one behaviour
MaxStreamCalls == 4 \* the same, when only stream events flow
MaxRuntime == 2     \* event runtimes the host can measure: 1..MaxRuntime
MaxTime == 1        \* clock readings: 0..MaxTime
MaxCount == 2       \* the generic count hook's count: 1..MaxCount
NThreads == 3       \* threads reading `self.client`
MaxStrLen == 2      \* length of label keys and values given to the facade
MaxBodyLen == 3     \* length of a stream label after its optional prefix

DefaultPort == 8125
DefaultRate == 1

K_topic == <<"t", "o", "p", "i", "c">>
K_partition == <<"p", "a", "r", "t", "i", "t", "i", "o", "n">>
K_stream == <<"s", "t", "r", "e", "a", "m">>
K_table == <<"t", "a", "b", "l", "e">>

Topics == {<<"a", ".", "b">>, <<"a", "_", "b">>}
TPs == {[topic |-> <<"a", ".", "b">>, partition |-> 0],
        [topic |-> <<"a", "_", "b">>, partition |-> 12]}
Offsets == {7, 42}
Streams == {"s1"}
\* "Stream: <Topic: x>", "<Topic: x>" and "Stream:tea"
ShortLabels ==
    {<<"S", "t", "r", "e", "a", "m", ":", " ", "<", "T", "o", "p", "i", "c", ":", " ", "x", ">">>,
     <<"<", "T", "o", "p", "i", "c", ":", " ", "x", ">">>,
     <<"S", "t", "r", "e", "a", "m", ":", "t", "e", "a">>}
Tables == {<<"u", "-", "1">>}
CountNames == {"custom", "messages_active"}
Runtimes == 1..MaxRuntime
Times == 0..MaxTime

(***************************************************************************)
(* DatadogStatsClient: the facade.  Each operation hands one call to the   *)
(* DogStatsd client; the record is that call and what became of it.        *)
(***************************************************************************)
\* DogStatsd sends fire-and-forget: a failed send is logged and dropped.
DogStatsd_report(up) == IF up THEN "sent" ELSE "dropped"

StatsdCall(op, c, metric, value, labels) ==
    [op |-> op, metric |-> metric, value |-> value, labels |-> labels,
     tags |-> _encode_labels(labels), rate |-> c.rate,
     result |-> DogStatsd_report(netUp)]

gauge(c, metric, value, labels) == StatsdCall("gauge", c, metric, value, labels)

\* A facade that turns a failed send into an exception.
increment_raising(c, metric, value, labels) ==
    [StatsdCall("increment", c, metric, value, labels)
        EXCEPT !.result = IF netUp THEN "sent" ELSE "raised"]

increment(c, metric, value, labels) == StatsdCall("increment", c, metric, value, labels)

incr(c, metric, count) == increment(c, metric, count, None)

decrement(c, metric, value, labels) == StatsdCall("decrement", c, metric, value, labels)

decr(c, metric, count) == decrement(c, metric, count, None)

timing(c, metric, value, labels) == StatsdCall("timing", c, metric, value, labels)

histogram(c, metric, value, labels) == StatsdCall("histogram", c, metric, value, labels)

\* timed() sends nothing: it returns the transport's timing helper.
timed(c, metric, labels) ==
    [StatsdCall("timed", c, metric, 0, labels) EXCEPT !.result = "helper"]

(***************************************************************************)
(* Obtaining a sensor: importing the module, then DatadogStatsMonitor().   *)
(***************************************************************************)
\* Lines 3-17: `from datadog.dogstatsd import DogStatsd` comes first and is
\* not guarded; the guarded `import datadog` follows it.
ImportModule ==
    /\ modState = "unloaded"
    /\ IF libAvailable
       THEN /\ modState' = "loaded"
            /\ datadog' = "module"
            /\ error' = error
       ELSE /\ modState' = "failed"
            /\ datadog' = datadog
            /\ error' = "ImportError"
    /\ UNCHANGED <<libAvailable, sensor, baseInit, client, created>>
    /\ UNCHANGED <<hookVars, threadVars, pureVars>>

\* DatadogStatsMonitor.__init__ with the default arguments.
__init__ ==
    /\ modState = "loaded"
    /\ sensor = None
    /\ error = "none"
    /\ IF datadog = "None"
       THEN /\ error' = "ImproperlyConfigured"
            /\ UNCHANGED <<sensor, baseInit>>
       ELSE /\ baseInit' = TRUE
            /\ sensor' = Some([host |-> "localhost", port |-> DefaultPort,
                               prefix |-> "faust-app", rate |-> DefaultRate])
            /\ error' = error
    /\ UNCHANGED <<libAvailable, datadog, modState, client, created>>
    /\ UNCHANGED <<hookVars, threadVars, pureVars>>

\* The id-th DatadogStatsClient this sensor constructs.
_new_datadog_stats_client(id) ==
    [id |-> id, host |-> sensor[1].host, port |-> sensor[1].port,
     prefix |-> sensor[1].prefix, rate |-> sensor[1].rate]

(***************************************************************************)
(* `self.client`: a cached_property.  The descriptor looks the name up in  *)
(* the instance's __dict__, and on a miss calls the getter and stores what *)
(* it returned.  Nothing makes the three steps one.                        *)
(***************************************************************************)
Threads == 1..NThreads

\* obj.__dict__['client']: return it, or go on to compute it.
client_lookup(t) ==
    /\ pc[t] = "start"
    /\ IF client # None
       THEN /\ got' = [got EXCEPT ![t] = client[1].id]
            /\ pc' = [pc EXCEPT ![t] = "done"]
       ELSE /\ pc' = [pc EXCEPT ![t] = "compute"]
            /\ got' = got
    /\ UNCHANGED <<local, client, created>>
    /\ UNCHANGED <<sensorVars, hookVars, pureVars>>

\* The getter: self._new_datadog_stats_client().
client_compute(t) ==
    /\ pc[t] = "compute"
    /\ created' = created + 1
    /\ local' = [local EXCEPT ![t] = created + 1]
    /\ pc' = [pc EXCEPT ![t] = "store"]
    /\ UNCHANGED <<got, client>>
    /\ UNCHANGED <<sensorVars, hookVars, pureVars>>

\* value = obj.__dict__['client'] = getter(obj); return value
client_store(t) ==
    /\ pc[t] = "store"
    /\ client' = Some(_new_datadog_stats_client(local[t]))
    /\ got' = [got EXCEPT ![t] = local[t]]
    /\ pc' = [pc EXCEPT ![t] = "done"]
    /\ UNCHANGED <<local, created>>
    /\ UNCHANGED <<sensorVars, hookVars, pureVars>>

\* `self.client` read by a hook, which the host runs to completion.
TheClient ==
    IF client = None THEN _new_datadog_stats_client(created + 1) ELSE client[1]

(***************************************************************************)
(* The base Monitor (faust.sensors.monitor), as far as the sensor uses it. *)
(***************************************************************************)
Monitor_init == [events_runtime |-> <<>>, events_active |-> 0, handled |-> 0]

\* The default bookkeeping of any hook.
Monitor_default(h) == [h EXCEPT !.handled = @ + 1]

Monitor_on_stream_event_in(h) ==
    [h EXCEPT !.handled = @ + 1, !.events_active = @ + 1]

\* The runtime of the event is appended to the history.
Monitor_on_stream_event_out(h, runtime) ==
    [h EXCEPT !.handled = @ + 1, !.events_active = @ - 1,
              !.events_runtime = Append(@, runtime)]

(***************************************************************************)
(* The hooks.  A hook's body is the sequence of calls it makes, in the     *)
(* order of its statements: Super is the call of the base class's hook,    *)
(* the others are facade calls.                                            *)
(***************************************************************************)
Super(hook) ==
    [op |-> "super", metric |-> hook, value |-> 0, labels |-> None,
     tags |-> None, rate |-> 0, result |-> "ok"]

_format_label(tp, stream, table) ==
    Some((IF tp # None
          THEN <<<<K_topic, StrVal(tp[1].topic)>>,
                 <<K_partition, IntVal(tp[1].partition)>>>>
          ELSE <<>>)
         \o (IF stream # None
             THEN <<<<K_stream, StrVal(_stream_label(stream[1]))>>>>
             ELSE <<>>)
         \o (IF table # None THEN <<<<K_table, StrVal(table[1])>>>> ELSE <<>>))

\* The gauge sent without its labels.
on_message_in_body_unlabelled(c, tp, offset) ==
    LET labels == _format_label(Some(tp), None, None)
    IN  <<Super("on_message_in"),
          increment(c, "messages_received", 1, labels),
          increment(c, "messages_active", 1, labels),
          gauge(c, "read_offset", offset, None)>>

on_message_in_body(c, tp, offset) ==
    LET labels == _format_label(Some(tp), None, None)
    IN  <<Super("on_message_in"),
          increment(c, "messages_received", 1, labels),
          increment(c, "messages_active", 1, labels),
          gauge(c, "read_offset", offset, labels)>>

on_stream_event_in_body(c, tp, label) ==
    LET labels == _format_label(Some(tp), Some(label), None)
    IN  <<Super("on_stream_event_in"),
          increment(c, "events", 1, labels),
          increment(c, "events_active", 1, labels)>>

\* The history read before the Monitor's own hook has appended to it.
on_stream_event_out_body_stale(c, before, after, tp, label) ==
    LET labels == _format_label(Some(tp), Some(label), None)
    IN  <<Super("on_stream_event_out"),
          decrement(c, "events_active", 1, labels),
          timing(c, "events_runtime",
                 _time(IF before.events_runtime = <<>> THEN 0
                       ELSE before.events_runtime[Len(before.events_runtime)]), labels)>>

\* before, after: the Monitor's state before and after its own hook ran.
on_stream_event_out_body(c, before, after, tp, label) ==
    LET labels == _format_label(Some(tp), Some(label), None)
    IN  <<Super("on_stream_event_out"),
          decrement(c, "events_active", 1, labels),
          timing(c, "events_runtime",
                 _time(after.events_runtime[Len(after.events_runtime)]), labels)>>

\* The counter incremented where it should be decremented.
on_message_out_body_incrementing(c, tp) ==
    <<Super("on_message_out"),
      increment(c, "messages_active", 1, _format_label(Some(tp), None, None))>>

on_message_out_body(c, tp) ==
    <<Super("on_message_out"),
      decrement(c, "messages_active", 1, _format_label(Some(tp), None, None))>>

on_table_get_body(c, table) ==
    <<Super("on_table_get"),
      increment(c, "table_keys_retrieved", 1, _format_label(None, None, Some(table)))>>

on_table_set_body(c, table) ==
    <<Super("on_table_set"),
      increment(c, "table_keys_updated", 1, _format_label(None, None, Some(table)))>>

on_table_del_body(c, table) ==
    <<Super("on_table_del"),
      increment(c, "table_keys_deleted", 1, _format_label(None, None, Some(table)))>>

on_commit_completed_body(c, now, state) ==
    <<Super("on_commit_completed"),
      timing(c, "commit_latency", _time(now - state), None)>>

\* The labels of a full TP where only the topic is known.
on_send_initiated_body_with_partition(c, topic) ==
    <<increment(c, "topic_messages_sent", 1,
                _format_label(Some([topic |-> topic, partition |-> 0]), None, None)),
      Super("on_send_initiated")>>

on_send_initiated_body(c, topic) ==
    <<increment(c, "topic_messages_sent", 1, Some(<<<<K_topic, StrVal(topic)>>>>)),
      Super("on_send_initiated")>>

on_send_completed_body(c, now, state) ==
    <<Super("on_send_completed"),
      increment(c, "messages_sent", 1, None),
      timing(c, "send_latency", _time(now - state), None)>>

count_body(c, metric_name, count) ==
    <<Super("count"), increment(c, metric_name, count, None)>>

\* tp_offsets: the mapping's items, in its order.
on_tp_commit_body(c, tp_offsets) ==
    <<Super("on_tp_commit")>>
    \o [k \in 1..Len(tp_offsets) |->
          gauge(c, "committed_offset", tp_offsets[k][2],
                _format_label(Some(tp_offsets[k][1]), None, None))]

track_tp_end_offset_body(c, tp, offset) ==
    <<Super("track_tp_end_offset"),
      gauge(c, "end_offset", offset, _format_label(Some(tp), None, None))>>

(***************************************************************************)
(* Running a hook.  An exception raised by a call ends the hook there: the *)
(* statements after it do not run and the host sees the exception.         *)
(***************************************************************************)
Raised(body) == {k \in DOMAIN body : body[k].result = "raised"}

Exec(body) == IF Raised(body) = {} THEN body ELSE SubSeq(body, 1, Min(Raised(body)))

RanSuper(done) == \E k \in DOMAIN done : done[k].op = "super"

UsedClient(done) == \E k \in DOMAIN done : done[k].op # "super"

ActiveMetrics == {"messages_active", "events_active"}

\* What the backend adds up for the two *_active counters.
Account(n, e) ==
    IF e.op \in {"increment", "decrement"} /\ e.metric \in ActiveMetrics
    THEN LET key == <<e.metric, e.labels>>
             d == IF e.op = "increment" THEN e.value ELSE 0 - e.value
         IN  IF key \in DOMAIN n THEN [n EXCEPT ![key] = @ + d] ELSE n @@ (key :> d)
    ELSE n

RECURSIVE AccountAll(_, _, _)
AccountAll(n, done, k) ==
    IF k > Len(done) THEN n ELSE AccountAll(Account(n, done[k]), done, k + 1)

NoArgs ==
    [tp |-> None, offset |-> 0, label |-> None, table |-> None, topic |-> None,
     metric |-> "", count |-> 0, runtime |-> 0, elapsed |-> 0, tp_offsets |-> <<>>]

\* One invocation of `hook` by the host: body is what the hook would do,
\* after the Monitor's state once its own hook has run, superRet what that
\* returned, and ret what the sensor's hook returns when it completes.
Invoke(hook, args, body, after, superRet, ret) ==
    LET done == Exec(body)
        completed == Raised(body) = {}
    IN  /\ host' = IF RanSuper(done) THEN after ELSE host
        /\ inv' = Some([hook |-> hook, args |-> args, events |-> done,
                        outcome |-> IF completed THEN "returned" ELSE "raised",
                        ret |-> IF completed THEN ret ELSE None,
                        superRet |-> IF RanSuper(done) THEN superRet ELSE None,
                        down |-> ~netUp])
        /\ net' = AccountAll(net, done, 1)
        /\ client' = IF UsedClient(done) THEN Some(TheClient) ELSE client
        /\ created' = IF UsedClient(done) /\ client = None THEN created + 1 ELSE created
        /\ ncalls' = ncalls + 1
        /\ UNCHANGED <<sensorVars, shortlabel, netUp, threadVars, pureVars>>

Ready(limit) == sensor # None /\ ncalls < limit

on_message_in(limit) ==
    \E tp \in TPs, offset \in Offsets :
        /\ Ready(limit)
        /\ Invoke("on_message_in", [NoArgs EXCEPT !.tp = Some(tp), !.offset = offset],
                  on_message_in_body(TheClient, tp, offset),
                  Monitor_default(host), None, None)
        /\ msgIn' = [msgIn EXCEPT ![tp] = @ + 1]
        /\ UNCHANGED <<msgOut, evIn, evOut>>

on_stream_event_in(limit) ==
    \E tp \in TPs, offset \in {Min(Offsets)}, stream \in Streams :
        /\ Ready(limit)
        /\ Invoke("on_stream_event_in",
                  [NoArgs EXCEPT !.tp = Some(tp), !.offset = offset,
                                 !.label = Some(shortlabel[stream])],
                  on_stream_event_in_body(TheClient, tp, shortlabel[stream]),
                  Monitor_on_stream_event_in(host), None, None)
        /\ evIn' = [evIn EXCEPT ![<<tp, shortlabel[stream]>>] = @ + 1]
        /\ UNCHANGED <<msgIn, msgOut, evOut>>

\* The host calls it for an event it has seen come in.
on_stream_event_out(limit) ==
    \E tp \in TPs, offset \in {Min(Offsets)}, stream \in Streams, runtime \in Runtimes :
        /\ Ready(limit)
        /\ host.events_active > 0
        /\ Invoke("on_stream_event_out",
                  [NoArgs EXCEPT !.tp = Some(tp), !.offset = offset,
                                 !.label = Some(shortlabel[stream]),
                                 !.runtime = runtime],
                  on_stream_event_out_body(TheClient, host,
                      Monitor_on_stream_event_out(host, runtime), tp, shortlabel[stream]),
                  Monitor_on_stream_event_out(host, runtime), None, None)
        /\ evOut' = [evOut EXCEPT ![<<tp, shortlabel[stream]>>] = @ + 1]
        /\ UNCHANGED <<msgIn, msgOut, evIn>>

on_message_out(limit) ==
    \E tp \in TPs, offset \in {Min(Offsets)} :
        /\ Ready(limit)
        /\ Invoke("on_message_out", [NoArgs EXCEPT !.tp = Some(tp), !.offset = offset],
                  on_message_out_body(TheClient, tp),
                  Monitor_default(host), None, None)
        /\ msgOut' = [msgOut EXCEPT ![tp] = @ + 1]
        /\ UNCHANGED <<msgIn, evIn, evOut>>

on_table_get ==
    \E table \in Tables :
        /\ Ready(MaxCalls)
        /\ Invoke("on_table_get", [NoArgs EXCEPT !.table = Some(table)],
                  on_table_get_body(TheClient, table),
                  Monitor_default(host), None, None)
        /\ UNCHANGED <<msgIn, msgOut, evIn, evOut>>

on_table_set ==
    \E table \in Tables :
        /\ Ready(MaxCalls)
        /\ Invoke("on_table_set", [NoArgs EXCEPT !.table = Some(table)],
                  on_table_set_body(TheClient, table),
                  Monitor_default(host), None, None)
        /\ UNCHANGED <<msgIn, msgOut, evIn, evOut>>

on_table_del ==
    \E table \in Tables :
        /\ Ready(MaxCalls)
        /\ Invoke("on_table_del", [NoArgs EXCEPT !.table = Some(table)],
                  on_table_del_body(TheClient, table),
                  Monitor_default(host), None, None)
        /\ UNCHANGED <<msgIn, msgOut, evIn, evOut>>

\* state: the clock reading the host took when the commit started.
on_commit_completed ==
    \E now \in Times, state \in Times :
        /\ Ready(MaxCalls)
        /\ state <= now
        /\ Invoke("on_commit_completed", [NoArgs EXCEPT !.elapsed = now - state],
                  on_commit_completed_body(TheClient, now, state),
                  Monitor_default(host), None, None)
        /\ UNCHANGED <<msgIn, msgOut, evIn, evOut>>

\* state: what Monitor.on_send_initiated returns (its clock reading).
on_send_initiated ==
    \E topic \in Topics, state \in Times :
        /\ Ready(MaxCalls)
        /\ Invoke("on_send_initiated", [NoArgs EXCEPT !.topic = Some(topic)],
                  on_send_initiated_body(TheClient, topic),
                  Monitor_default(host), Some(state), Some(state))
        /\ UNCHANGED <<msgIn, msgOut, evIn, evOut>>

on_send_completed ==
    \E now \in Times, state \in Times :
        /\ Ready(MaxCalls)
        /\ state <= now
        /\ Invoke("on_send_completed", [NoArgs EXCEPT !.elapsed = now - state],
                  on_send_completed_body(TheClient, now, state),
                  Monitor_default(host), None, None)
        /\ UNCHANGED <<msgIn, msgOut, evIn, evOut>>

count ==
    \E metric_name \in CountNames, n \in 1..MaxCount :
        /\ Ready(MaxCalls)
        /\ Invoke("count", [NoArgs EXCEPT !.metric = metric_name, !.count = n],
                  count_body(TheClient, metric_name, n),
                  Monitor_default(host), None, None)
        /\ UNCHANGED <<msgIn, msgOut, evIn, evOut>>

\* The mappings the host commits: no TP, one, or two different ones.
TPOffsetMappings ==
    {<<>>}
    \cup {<<<<tp, Max(Offsets)>>>> : tp \in TPs}
    \cup {<<<<tp1, Min(Offsets)>>, <<tp2, Max(Offsets)>>>> :
            tp1 \in {tp \in TPs : tp.partition = 0},
            tp2 \in {tp \in TPs : tp.partition # 0}}

on_tp_commit ==
    \E tp_offsets \in TPOffsetMappings :
        /\ Ready(MaxCalls)
        /\ Invoke("on_tp_commit", [NoArgs EXCEPT !.tp_offsets = tp_offsets],
                  on_tp_commit_body(TheClient, tp_offsets),
                  Monitor_default(host), None, None)
        /\ UNCHANGED <<msgIn, msgOut, evIn, evOut>>

track_tp_end_offset ==
    \E tp \in TPs, offset \in Offsets :
        /\ Ready(MaxCalls)
        /\ Invoke("track_tp_end_offset",
                  [NoArgs EXCEPT !.tp = Some(tp), !.offset = offset],
                  track_tp_end_offset_body(TheClient, tp, offset),
                  Monitor_default(host), None, None)
        /\ UNCHANGED <<msgIn, msgOut, evIn, evOut>>

\* The host gives a stream another label.
RelabelStream ==
    \E stream \in Streams, label \in ShortLabels :
        /\ sensor # None
        /\ shortlabel[stream] # label
        /\ shortlabel' = [shortlabel EXCEPT ![stream] = label]
        /\ UNCHANGED <<sensorVars, client, created, host, netUp, inv, net, msgIn,
                       msgOut, evIn, evOut, ncalls, threadVars, pureVars>>

\* The network to the agent goes down or comes back.
NetworkFlip ==
    /\ sensor # None
    /\ netUp' = ~netUp
    /\ UNCHANGED <<sensorVars, client, created, host, shortlabel, inv, net, msgIn,
                   msgOut, evIn, evOut, ncalls, threadVars, pureVars>>

InitLabels == [stream \in Streams |-> CHOOSE label \in ShortLabels : Len(label) = 18]

Init ==
    /\ libAvailable \in BOOLEAN
    /\ datadog = "unset"
    /\ modState = "unloaded"
    /\ error = "none"
    /\ sensor = None
    /\ baseInit = FALSE
    /\ client = None
    /\ created = 0
    /\ host = Monitor_init
    /\ shortlabel = InitLabels
    /\ netUp = TRUE
    /\ inv = None
    /\ net = <<>>
    /\ msgIn = [tp \in TPs |-> 0]
    /\ msgOut = [tp \in TPs |-> 0]
    /\ evIn = [k \in TPs \X ShortLabels |-> 0]
    /\ evOut = [k \in TPs \X ShortLabels |-> 0]
    /\ ncalls = 0
    /\ pc = [t \in Threads |-> "start"]
    /\ local = [t \in Threads |-> 0]
    /\ got = [t \in Threads |-> 0]
    /\ wire = None
    /\ slabel = <<>>
    /\ derived = None

Next ==
    \/ ImportModule
    \/ __init__
    \/ on_message_in(MaxCalls)
    \/ on_stream_event_in(MaxCalls)
    \/ on_stream_event_out(MaxCalls)
    \/ on_message_out(MaxCalls)
    \/ on_table_get
    \/ on_table_set
    \/ on_table_del
    \/ on_commit_completed
    \/ on_send_initiated
    \/ on_send_completed
    \/ count
    \/ on_tp_commit
    \/ track_tp_end_offset
    \/ RelabelStream
    \/ NetworkFlip

Spec == Init /\ [][Next]_vars

\* A host that only processes stream events.
NextStream ==
    \/ ImportModule
    \/ __init__
    \/ on_stream_event_in(MaxStreamCalls)
    \/ on_stream_event_out(MaxStreamCalls)
    \/ RelabelStream

SpecStream == Init /\ [][NextStream]_vars

(***************************************************************************)
(* Threads reading `self.client` of a constructed sensor for the first     *)
(* time.                                                                   *)
(***************************************************************************)
Constructed ==
    /\ libAvailable = TRUE
    /\ datadog = "module"
    /\ modState = "loaded"
    /\ error = "none"
    /\ sensor = Some([host |-> "localhost", port |-> DefaultPort,
                      prefix |-> "faust-app", rate |-> DefaultRate])
    /\ baseInit = TRUE
    /\ host = Monitor_init
    /\ shortlabel = InitLabels
    /\ inv = None
    /\ net = <<>>
    /\ msgIn = [tp \in TPs |-> 0]
    /\ msgOut = [tp \in TPs |-> 0]
    /\ evIn = [k \in TPs \X ShortLabels |-> 0]
    /\ evOut = [k \in TPs \X ShortLabels |-> 0]
    /\ ncalls = 0
    /\ pc = [t \in Threads |-> "start"]
    /\ local = [t \in Threads |-> 0]
    /\ got = [t \in Threads |-> 0]
    /\ wire = None
    /\ derived = None

InitClient ==
    /\ Constructed
    /\ client = None
    /\ created = 0
    /\ netUp = TRUE
    /\ slabel = <<>>

NextClient ==
    \E t \in Threads :
        \/ client_lookup(t)
        \/ client_compute(t)
        \/ client_store(t)

SpecClient == InitClient /\ [][NextClient]_vars

(***************************************************************************)
(* The facade's operations, called with any label set.                     *)
(***************************************************************************)
FacadeChars == {"a", "Z", "7", "_", ":"}

RECURSIVE StringsUpTo(_, _)
StringsUpTo(chars, n) ==
    IF n = 0 THEN {<<>>}
    ELSE LET shorter == StringsUpTo(chars, n - 1)
         IN  shorter \cup {Append(s, c) : s \in shorter, c \in chars}

FacadeKeys == StringsUpTo(FacadeChars, MaxStrLen)
FacadeValues ==
    {StrVal(s) : s \in FacadeKeys} \cup {IntVal(n) : n \in {0 - 3, 0, 12}}
FacadeItems == FacadeKeys \X FacadeValues

\* None, the empty dict, every one-item dict, and those followed by a partition.
LabelSets ==
    {None, Some(<<>>)}
    \cup {Some(<<item>>) : item \in FacadeItems}
    \cup {Some(<<item, <<K_partition, IntVal(12)>>>>) : item \in FacadeItems}

InitFacade ==
    /\ Constructed
    /\ client = Some(_new_datadog_stats_client(1))
    /\ created = 1
    /\ netUp \in BOOLEAN
    /\ slabel = <<>>

\* One call of a facade operation: the facade keeps nothing between calls.
FacadeReady == wire = None

FacadeCall(call) ==
    /\ wire' = Some(call)
    /\ UNCHANGED <<sensorVars, client, created, hookVars, threadVars, slabel, derived>>

call_gauge == FacadeReady /\ \E labels \in LabelSets : FacadeCall(gauge(client[1], "m", 5, labels))

call_increment == FacadeReady /\ \E labels \in LabelSets : FacadeCall(increment(client[1], "m", 1, labels))

call_decrement == FacadeReady /\ \E labels \in LabelSets : FacadeCall(decrement(client[1], "m", 1, labels))

call_timing == FacadeReady /\ \E labels \in LabelSets : FacadeCall(timing(client[1], "m", 5, labels))

call_histogram == FacadeReady /\ \E labels \in LabelSets : FacadeCall(histogram(client[1], "m", 5, labels))

call_timed == FacadeReady /\ \E labels \in LabelSets : FacadeCall(timed(client[1], "m", labels))

call_incr == FacadeReady /\ FacadeCall(incr(client[1], "m", 1))

call_decr == FacadeReady /\ FacadeCall(decr(client[1], "m", 1))

NextFacade ==
    \/ call_gauge
    \/ call_increment
    \/ call_decrement
    \/ call_timing
    \/ call_histogram
    \/ call_timed
    \/ call_incr
    \/ call_decr

SpecFacade == InitFacade /\ [][NextFacade]_vars

(***************************************************************************)
(* _stream_label applied to a stream's label.                              *)
(***************************************************************************)
LabelChars == {"a", "t", "T", "x", " ", "<", ":", "_"}

LabelInputs ==
    {prefix \o body : prefix \in {<<>>, StreamPrefix},
                      body \in StringsUpTo(LabelChars, MaxBodyLen)}

InitLabel ==
    /\ Constructed
    /\ client = None
    /\ created = 0
    /\ netUp = TRUE
    /\ slabel \in LabelInputs

DeriveLabel ==
    /\ derived = None
    /\ derived' = Some(_stream_label(slabel))
    /\ UNCHANGED <<sensorVars, client, created, hookVars, threadVars, wire, slabel>>

NextLabel == DeriveLabel

SpecLabel == InitLabel /\ [][NextLabel]_vars

(***************************************************************************)
(* The claims.                                                             *)
(***************************************************************************)
LastInv == inv[1]

MetricCalls(events) == SelectSeq(events, LAMBDA e : e.op # "super")

DigitValue(c) == (CHOOSE k \in DOMAIN DigitSeq : DigitSeq[k] = c) - 1

RECURSIVE ParseDecimal(_)
ParseDecimal(d) ==
    IF d = <<>> THEN 0
    ELSE 10 * ParseDecimal(SubSeq(d, 1, Len(d) - 1)) + DigitValue(d[Len(d)])

\* d is the decimal numeral of the natural number n.
IsDecimalOf(d, n) ==
    /\ Len(d) >= 1
    /\ \A k \in DOMAIN d : d[k] \in Range(DigitSeq)
    /\ Len(d) > 1 => d[1] # "0"
    /\ ParseDecimal(d) = n

\* The characters of [0-9a-zA-Z_].
ClaimAllowed == Range(DigitSeq) \cup Range(UpperSeq) \cup Range(LowerSeq) \cup {"_"}

\* out is in with each character outside [0-9a-zA-Z_] replaced by one "_".
Replaced(out, in) ==
    /\ Len(out) = Len(in)
    /\ \A k \in DOMAIN in : out[k] = IF in[k] \in ClaimAllowed THEN in[k] ELSE "_"

\* tag is "<key>:<value>" with key and value sanitized.
TagOk(tag, key, val) ==
    LET colons == {k \in DOMAIN tag : tag[k] = ":"}
    IN  /\ colons # {}
        /\ LET p == Min(colons)
               kp == SubSeq(tag, 1, p - 1)
               vp == SubSeq(tag, p + 1, Len(tag))
           IN  /\ \A k \in DOMAIN kp : kp[k] \in ClaimAllowed
               /\ \A k \in DOMAIN vp : vp[k] \in ClaimAllowed
               /\ Replaced(kp, key)
               /\ IF val.t = "str" THEN Replaced(vp, val.s)
                  ELSE IF val.i >= 0 THEN IsDecimalOf(vp, val.i)
                  ELSE /\ Len(vp) >= 2
                       /\ vp[1] = "_"
                       /\ IsDecimalOf(SubSeq(vp, 2, Len(vp)), 0 - val.i)

TPLabels(tp) ==
    Some(<<<<K_topic, StrVal(tp.topic)>>, <<K_partition, IntVal(tp.partition)>>>>)

StreamLabels(tp, label) ==
    Some(<<<<K_topic, StrVal(tp.topic)>>, <<K_partition, IntVal(tp.partition)>>,
           <<K_stream, StrVal(label)>>>>)

\* C1: in every hook invocation the base class's hook is called before any
\* metric call is handed to the client: the first call a hook makes is the
\* call of the base class's hook.
C1_DelegatesFirst == inv # None => LastInv.events[1].op = "super"

\* C2: however the threads reading the client handle for the first time
\* interleave, at most one client is constructed and all threads that have
\* their handle have the same one.
C2_ConstructedOnce ==
    /\ created <= 1
    /\ \A t1, t2 \in Threads :
          (pc[t1] = "done" /\ pc[t2] = "done") => got[t1] = got[t2]

ReferenceStreamLabel(label) ==
    LET prefixed == /\ Len(label) >= Len(StreamPrefix)
                    /\ SubSeq(label, 1, Len(StreamPrefix)) = StreamPrefix
        rest == IF prefixed THEN SubSeq(label, Len(StreamPrefix) + 1, Len(label))
                ELSE label
    IN  lower(strip(_normalize(rest), {"_"}))

\* C4: the derived stream label is the label without the literal prefix
\* "Stream:", with every run of "<", ">", ":" or whitespace collapsed to one
\* "_", without leading and trailing "_", in lower case.
C4_StreamLabelIsReference ==
    derived # None => derived[1] = ReferenceStreamLabel(slabel)

\* C5: in the tags a facade operation hands to the transport, every key and
\* every value holds only characters of [0-9a-zA-Z_]: it is the label's key
\* or value (an integer in decimal) with each other character replaced by
\* one "_"; every label of the label set has its tag.
C5_TagsSanitized ==
    wire # None =>
        LET w == wire[1]
        IN  IF w.labels = None \/ w.labels[1] = <<>> THEN w.tags = None
            ELSE /\ w.tags # None
                 /\ Len(w.tags[1]) = Len(w.labels[1])
                 /\ \A k \in DOMAIN w.labels[1] :
                       TagOk(w.tags[1][k], w.labels[1][k][1], w.labels[1][k][2])

C5_Witness ==
    /\ wire # None
    /\ wire[1].labels # None
    /\ \E k \in DOMAIN wire[1].labels[1] :
          LET item == wire[1].labels[1][k]
          IN  /\ \E j \in DOMAIN item[1] : item[1][j] \notin ClaimAllowed
              /\ item[2].t = "int"
              /\ item[2].i < 0

\* C6: when the datadog library is unavailable, obtaining a sensor fails
\* with ImproperlyConfigured and no other error, no sensor exists, the base
\* class's initialisation has not run and no client was created.
C6_ImproperlyConfigured ==
    (~libAvailable /\ modState # "unloaded") =>
        /\ error = "ImproperlyConfigured"
        /\ sensor = None
        /\ ~baseInit
        /\ client = None
        /\ created = 0

\* C7: a `stream event out` call makes, after the base class's hook, exactly
\* a decrement of events_active by 1 and a timing events_runtime of 1000
\* times the runtime the base class recorded for this event, which is the
\* last entry of the history; both carry topic, partition and the stream
\* label derived from the stream's label at this call.
C7_EventOut ==
    (inv # None /\ LastInv.hook = "on_stream_event_out") =>
        LET e == LastInv.events
            a == LastInv.args
            labels == StreamLabels(a.tp[1], _stream_label(a.label[1]))
        IN  /\ Len(e) = 3
            /\ e[1].op = "super"
            /\ e[2].op = "decrement" /\ e[2].metric = "events_active"
            /\ e[2].value = 1 /\ e[2].labels = labels
            /\ e[3].op = "timing" /\ e[3].metric = "events_runtime"
            /\ e[3].value = 1000 * a.runtime /\ e[3].labels = labels
            /\ host.events_runtime # <<>>
            /\ host.events_runtime[Len(host.events_runtime)] = a.runtime

\* An event goes out whose runtime differs from the one recorded before it,
\* under a label the stream did not have at the start.
C7_Witness ==
    /\ inv # None
    /\ LastInv.hook = "on_stream_event_out"
    /\ Len(host.events_runtime) >= 2
    /\ host.events_runtime[Len(host.events_runtime) - 1] # LastInv.args.runtime
    /\ \E stream \in Streams : LastInv.args.label[1] # InitLabels[stream]

\* C8: a `message received` call makes exactly three metric calls:
\* increment messages_received by 1, increment messages_active by 1, gauge
\* read_offset at the offset, all with the same labels, whose keys are
\* exactly topic and partition, the partition sent as its decimal numeral.
C8_MessageIn ==
    (inv # None /\ LastInv.hook = "on_message_in") =>
        LET m == MetricCalls(LastInv.events)
            tp == LastInv.args.tp[1]
        IN  /\ Len(m) = 3
            /\ m[1].op = "increment" /\ m[1].metric = "messages_received" /\ m[1].value = 1
            /\ m[2].op = "increment" /\ m[2].metric = "messages_active" /\ m[2].value = 1
            /\ m[3].op = "gauge" /\ m[3].metric = "read_offset"
            /\ m[3].value = LastInv.args.offset
            /\ \A k \in 1..3 :
                  /\ m[k].labels = TPLabels(tp)
                  /\ m[k].tags # None
                  /\ Len(m[k].tags[1]) = 2
                  /\ TagOk(m[k].tags[1][1], K_topic, StrVal(tp.topic))
                  /\ SubSeq(m[k].tags[1][1], 1, Len(K_topic)) = K_topic
                  /\ SubSeq(m[k].tags[1][2], 1, Len(K_partition) + 1) = K_partition \o <<":">>
                  /\ IsDecimalOf(SubSeq(m[k].tags[1][2], Len(K_partition) + 2,
                                        Len(m[k].tags[1][2])), tp.partition)

C8_Witness ==
    /\ inv # None
    /\ LastInv.hook = "on_message_in"
    /\ LastInv.args.tp[1].partition >= 10
    /\ LastInv.args.offset = Max(Offsets)

\* C9: a `send initiated` call makes exactly one metric call, increment
\* topic_messages_sent by 1 with the labels {topic: <topic>} and no
\* partition, and returns what the base class's hook returned.
C9_SendInitiated ==
    (inv # None /\ LastInv.hook = "on_send_initiated") =>
        LET m == MetricCalls(LastInv.events)
        IN  /\ Len(m) = 1
            /\ m[1].op = "increment" /\ m[1].metric = "topic_messages_sent"
            /\ m[1].value = 1
            /\ m[1].labels = Some(<<<<K_topic, StrVal(LastInv.args.topic[1])>>>>)
            /\ Len(m[1].tags[1]) = 1
            /\ TagOk(m[1].tags[1][1], K_topic, StrVal(LastInv.args.topic[1]))
            /\ LastInv.superRet # None
            /\ LastInv.ret = LastInv.superRet

C9_Witness ==
    /\ inv # None
    /\ LastInv.hook = "on_send_initiated"
    /\ LastInv.ret = Some(MaxTime)

Net(metric, labels) ==
    IF <<metric, labels>> \in DOMAIN net THEN net[<<metric, labels>>] ELSE 0

RECURSIVE EvBalance(_, _)
EvBalance(tp, raws) ==
    IF raws = {} THEN 0
    ELSE LET raw == CHOOSE r \in raws : TRUE
         IN  evIn[<<tp, raw>>] - evOut[<<tp, raw>>] + EvBalance(tp, raws \ {raw})

\* What each label a stream can have is derived to.
DerivedOf == [raw \in ShortLabels |-> _stream_label(raw)]

\* For every TP the messages_active sent with its labels add up to the calls
\* in minus the calls out; the same for events_active per TP and derived
\* stream label.
ActiveSumsMatch ==
    /\ \A tp \in TPs : Net("messages_active", TPLabels(tp)) = msgIn[tp] - msgOut[tp]
    /\ \A tp \in TPs, raw \in ShortLabels :
          Net("events_active", StreamLabels(tp, DerivedOf[raw]))
            = EvBalance(tp, {r \in ShortLabels : DerivedOf[r] = DerivedOf[raw]})

EmitsMessagesActive(k) == LastInv.events[k].metric = "messages_active"

\* C10 as claimed: the sums match, and no hook other than `message received`
\* and `message out` emits messages_active.
C10_OnlyMessageHooksEmit ==
    /\ ActiveSumsMatch
    /\ (inv # None /\ LastInv.hook \notin {"on_message_in", "on_message_out"}) =>
          \A k \in DOMAIN LastInv.events :
              LastInv.events[k].op = "super" \/ ~EmitsMessagesActive(k)

\* C10 as amended: the sums match, and a hook other than `message received`
\* and `message out` emits messages_active only if it is the generic count
\* hook called with that name, and then without labels.
C10_ActiveCounters ==
    /\ ActiveSumsMatch
    /\ (inv # None /\ LastInv.hook \notin {"on_message_in", "on_message_out"}) =>
          \A k \in DOMAIN LastInv.events :
              (LastInv.events[k].op # "super" /\ EmitsMessagesActive(k)) =>
                  /\ LastInv.hook = "count"
                  /\ LastInv.args.metric = "messages_active"
                  /\ LastInv.events[k].labels = None

C10_Witness ==
    /\ inv # None
    /\ LastInv.hook = "on_message_out"
    /\ \E tp \in TPs : msgIn[tp] = 1 /\ msgOut[tp] = 1
    /\ net # <<>>

====
